---- MODULE Spec2Model ----
(***************************************************************************)
(* Model of src/app.py: a URL shortener running as a Lambda function over  *)
(* a DynamoDB table.  handler routes an event to criar_encurtamento (POST  *)
(* /encurtar) or redirecionar (GET /{codigo}).  Several invocations run    *)
(* concurrently; the only shared state is the table, reached through the   *)
(* atomic calls put_item (with attribute_not_exists(codigo)) and get_item. *)
(***************************************************************************)
EXTENDS Integers, Sequences, FiniteSets, TLC

(***************************************************************************)
(* Bounds of the model.                                                    *)
(***************************************************************************)
\* number of invocations that may be in flight at the same time
NumProcs == 2
\* number of distinct codes the random source of gerar_codigo can produce
NumCodigos == 2

Procs == 1..NumProcs

(***************************************************************************)
(* Program constants.                                                      *)
(***************************************************************************)
TAMANHO_CODIGO == 6

\* string.ascii_letters + string.digits
CARACTERES ==
  << "a","b","c","d","e","f","g","h","i","j","k","l","m",
     "n","o","p","q","r","s","t","u","v","w","x","y","z",
     "A","B","C","D","E","F","G","H","I","J","K","L","M",
     "N","O","P","Q","R","S","T","U","V","W","X","Y","Z",
     "0","1","2","3","4","5","6","7","8","9" >>

\* range(5): the number of iterations of the generation loop
MAX_TENTATIVAS == 5

\* Python's None (also what dict.get gives for a missing key)
Nenhum == << "None" >>
\* a JSON value that is neither a string nor falsy (a number such as 5)
Numero == << "int" >>

(***************************************************************************)
(* Strings are sequences of one-character strings.                         *)
(***************************************************************************)
Minusculas == [i \in 1..26 |-> CARACTERES[i]]
Maiusculas == [i \in 1..26 |-> CARACTERES[26 + i]]

Range(s) == { s[i] : i \in DOMAIN s }

\* isinstance(v, str) for the values of the model
IsString(v) == v \notin {Nenhum, Numero}

\* bool(v): None and the empty string are falsy
Truthy(v) == v # Nenhum /\ v # << >>

\* str.find(ch): index of the first occurrence, 0 when there is none
Find(s, ch) ==
  IF \E i \in 1..Len(s) : s[i] = ch
    THEN CHOOSE i \in 1..Len(s) : s[i] = ch /\ \A j \in 1..(i-1) : s[j] # ch
    ELSE 0

\* str.lower() on one character
LowerChar(c) ==
  IF c \in Range(Maiusculas)
    THEN Minusculas[CHOOSE i \in 1..26 : Maiusculas[i] = c]
    ELSE c

Lower(s) == [i \in 1..Len(s) |-> LowerChar(s[i])]

\* s[a:] with a 1-based
Suffix(s, a) == IF a > Len(s) THEN << >> ELSE SubSeq(s, a, Len(s))

(***************************************************************************)
(* urllib.parse.urlparse, as far as url_valida looks at its result: the     *)
(* scheme and the netloc of urlsplit.                                       *)
(***************************************************************************)
\* urllib.parse.scheme_chars
SchemeChars == Range(CARACTERES) \cup {"+", "-", "."}

\* the ASCII letters
Letras == Range(Minusculas) \cup Range(Maiusculas)

IsAlpha(c) == c \in Letras

\* i = url.find(':'); the prefix is a scheme when i > 0, url[0] is a letter
\* and every character before the colon is a scheme character
HasScheme(url) ==
  \E i \in {Find(url, ":")} :
    /\ i > 1
    /\ IsAlpha(url[1])
    /\ \A j \in 1..(i-1) : url[j] \in SchemeChars

\* p.scheme: url[:i].lower()
UrlScheme(url) ==
  IF HasScheme(url) THEN Lower(SubSeq(url, 1, Find(url, ":") - 1)) ELSE << >>

\* what is left of the url after the scheme and its colon
UrlRest(url) ==
  IF HasScheme(url) THEN Suffix(url, Find(url, ":") + 1) ELSE url

\* the value of e, computed once: Value({e}) where e is used many times
Value(S) == CHOOSE v \in S : TRUE

\* the index of the first of "/", "?", "#" in r, Len(r) + 1 when there is none
Delim(r) ==
  IF \E i \in 1..Len(r) : r[i] \in {"/", "?", "#"}
    THEN CHOOSE i \in 1..Len(r) :
           /\ r[i] \in {"/", "?", "#"}
           /\ \A j \in 1..(i-1) : r[j] \notin {"/", "?", "#"}
    ELSE Len(r) + 1

\* _splitnetloc(url, 2): from after "//" up to the first of "/", "?", "#"
SplitNetloc(rest) ==
  Value({ SubSeq(r, 1, Delim(r) - 1) : r \in {Suffix(rest, 3)} })

\* p.netloc
UrlNetloc(url) ==
  Value({ IF Len(rest) >= 2 /\ rest[1] = "/" /\ rest[2] = "/"
            THEN SplitNetloc(rest)
            ELSE << >> : rest \in {UrlRest(url)} })

\* urlsplit raises ValueError("Invalid IPv6 URL") on unbalanced brackets
UrlparseRaises(url) ==
  \E n \in {UrlNetloc(url)} :
    \/ ("[" \in Range(n) /\ "]" \notin Range(n))
    \/ ("]" \in Range(n) /\ "[" \notin Range(n))

HTTP  == << "h","t","t","p" >>
HTTPS == << "h","t","t","p","s" >>

\* url_valida: the bare except turns every exception (a non-string argument,
\* an invalid IPv6 netloc) into False
url_valida(url) ==
  IF ~IsString(url) \/ UrlparseRaises(url)
    THEN FALSE
    ELSE UrlScheme(url) \in {HTTP, HTTPS} /\ UrlNetloc(url) # << >>

(***************************************************************************)
(* gerar_codigo: random.choices(CARACTERES, k=TAMANHO_CODIGO).  The random  *)
(* source of the model produces NumCodigos of the 62^6 codes: the k-th one  *)
(* repeats the k-th character TAMANHO_CODIGO times.                         *)
(***************************************************************************)
Codigos == { [i \in 1..TAMANHO_CODIGO |-> CARACTERES[k]] : k \in 1..NumCodigos }

(***************************************************************************)
(* Requests.                                                               *)
(***************************************************************************)
\* "https://e.co"
UrlA == << "h","t","t","p","s",":","/","/","e",".","c","o" >>
\* "HTTP://a/x"
UrlB == << "H","T","T","P",":","/","/","a","/","x" >>

\* the urls the concurrent invocations ask to shorten
UrlsValidas == {UrlA, UrlB}

\* "ftp://host/x"
UrlFtp == << "f","t","p",":","/","/","h","o","s","t","/","x" >>
\* "https://"
UrlSemHost == << "h","t","t","p","s",":","/","/" >>

\* candidates for the "url" field of the body that must be rejected
UrlsInvalidas ==
  { << >>,                                                \* ""
    << "n","o","t","-","a","-","u","r","l" >>,            \* "not-a-url"
    UrlFtp,
    UrlSemHost,
    << "h","t","t","p",":","/","a" >>,                    \* "http:/a"
    << "/","/","a" >>,                                    \* "//a"
    << "h","t","t","p",":","/","/","?","q" >>,            \* "http://?q"
    << "h","t","t","p",":","/","/","[","a" >>,            \* "http://[a"
    << "7","h","t","t","p",":","/","/","a" >> }           \* "7http://a"

\* the body of the event.  tipo says what the text of the body is:
\*   "ausente"  no body key, or None      "vazio"   the empty string
\*   "invalido" text that is not JSON     "lista"   a JSON array
\*   "nulo"     the JSON text null        "objeto"  a JSON object, whose
\*   url field is the value of its "url" key (Nenhum when it has none)
Corpo(tipo, url) == [tipo |-> tipo, url |-> url]

CorposSemUrl ==
  { Corpo(t, Nenhum) : t \in {"ausente", "vazio", "invalido", "lista", "nulo", "objeto"} }

CorposTodos ==
  CorposSemUrl \cup { Corpo("objeto", u) : u \in UrlsValidas \cup UrlsInvalidas \cup {Numero} }

\* pathParameters.  tipo is "semchave" when the event has no such key,
\* "nulo" when it is null and "dict" otherwise; codigo is what
\* .get("codigo") returns on the dict (Nenhum when it has no such entry)
Parametros(tipo, codigo) == [tipo |-> tipo, codigo |-> codigo]

SemParametros == Parametros("nulo", Nenhum)

ParametrosTodos ==
  { Parametros("semchave", Nenhum), SemParametros }
  \cup { Parametros("dict", c) : c \in Codigos \cup {Nenhum, << >>} }

\* a path is the sequence of its segments: "/prod/encurtar" is
\* << "prod", "encurtar" >>
Caminhos == { << "encurtar" >>, << "prod", "encurtar" >>, << "x" >>, << >> }

Evento(metodo, caminho, corpo, params) ==
  [httpMethod |-> metodo, path |-> caminho, body |-> corpo, pathParameters |-> params]

\* the events criar_encurtamento is called with: every body
EventosCriar ==
  { Evento("POST", << "encurtar" >>, b, SemParametros) : b \in CorposTodos }

\* the events redirecionar is called with: every pathParameters
EventosRedirecionar ==
  { Evento("GET", << "x" >>, Corpo("ausente", Nenhum), pp) : pp \in ParametrosTodos }

\* the events handler is called with: every method, path and pathParameters,
\* without a body and with a body that asks for a valid url
EventosHandler ==
  { Evento(m, c, b, pp) : m \in {"POST", "GET", "DELETE", "None"}, c \in Caminhos,
                          b \in {Corpo("ausente", Nenhum), Corpo("objeto", UrlA)},
                          pp \in ParametrosTodos }
  \cup EventosCriar \cup EventosRedirecionar

\* the requests of the concurrent clients: POST /encurtar with a valid url,
\* GET /{codigo} with the code as path parameter
EventosRota ==
  { Evento("POST", << "encurtar" >>, Corpo("objeto", u), SemParametros) :
      u \in UrlsValidas }
  \cup
  { Evento("GET", << "x" >>, Corpo("ausente", Nenhum), Parametros("dict", c)) :
      c \in Codigos }

(***************************************************************************)
(* Responses and error texts.                                              *)
(***************************************************************************)
ERRO_URL      == "URL invalida. Envie no formato: {url: https://site.com}"
ERRO_GERAR    == "Falha ao gerar codigo unico."
ERRO_CODIGO   == "Codigo nao informado."
ERRO_404      == "Codigo nao encontrado."
ERRO_URL_DB   == "URL original invalida no DB."
ERRO_ROTA     == "Requisicao invalida ou rota nao encontrada."

\* str(e) of the exceptions the two operations can meet
MSG_JSON      == "Expecting value: line 1 column 1 (char 0)"
MSG_LISTA     == "'list' object has no attribute 'get'"
MSG_NONE      == "'NoneType' object has no attribute 'get'"
MSG_KEY       == "'pathParameters'"
MSG_ATRIBUTO  == "module 'boto3.exceptions' has no attribute 'ClientError'"

SemResposta == [statusCode |-> 0, erro |-> "", codigo |-> Nenhum,
                url_encurtada |-> Nenhum, Location |-> Nenhum]

RespErro(status, erro) == [SemResposta EXCEPT !.statusCode = status, !.erro = erro]

\* the 201 response with the bare code as url_encurtada
Resp201SemBarra(c) ==
  [SemResposta EXCEPT !.statusCode = 201, !.codigo = c, !.url_encurtada = c]

\* lines 70-80
Resp201(c) ==
  [SemResposta EXCEPT !.statusCode = 201, !.codigo = c, !.url_encurtada = << "/" >> \o c]

\* lines 115-123
Resp301(url) == [SemResposta EXCEPT !.statusCode = 301, !.Location = url]

(***************************************************************************)
(* Exceptions of the table calls.                                          *)
(***************************************************************************)
CCFE == "ConditionalCheckFailedException"

Excecao(classe, code, msg) == [classe |-> classe, code |-> code, msg |-> msg]

\* put_item on a key that exists, under attribute_not_exists(codigo)
ExcecaoCondicao ==
  Excecao("ClientError", CCFE,
          "An error occurred (ConditionalCheckFailedException): The conditional request failed")

\* failures of the store itself: a ClientError with another code (a
\* permission error), and an exception that is not a ClientError (the store
\* cannot be reached)
FalhaPermissao ==
  Excecao("ClientError", "AccessDeniedException",
          "An error occurred (AccessDeniedException): not authorized")

FalhaConexao ==
  Excecao("EndpointConnectionError", "", "Could not connect to the endpoint URL")

FalhasDaTabela == { FalhaPermissao, FalhaConexao }

(***************************************************************************)
(* State.                                                                  *)
(***************************************************************************)
VARIABLES
  tabela,        \* the DynamoDB table: codigo -> url_original, Nenhum = no item
  pc,            \* where each invocation is: "idle", "put", "get", "done"
  funcao,        \* the function the caller invoked
  operacao,      \* the operation that runs: "criar", "redirecionar", "nenhuma"
  evento,        \* the event of the invocation
  url_original,  \* local of criar_encurtamento
  codigo,        \* local of criar_encurtamento and of redirecionar
  tentativa,     \* the loop variable of "for _ in range(5)"
  resposta,      \* the response the invocation returns
  puts,          \* the outcomes of the put_item calls of the invocation
  gets,          \* the outcomes of the get_item calls of the invocation
  emitidos,      \* history: per code, how many 201 responses carried it
  criados        \* history: the << codigo, url >> of every 201 response

vars == << tabela, pc, funcao, operacao, evento, url_original, codigo, tentativa,
           resposta, puts, gets, emitidos, criados >>

SemEvento == Evento("", << >>, Corpo("ausente", Nenhum), SemParametros)

\* an item of the table that has no url_original attribute (it was not
\* written by criar_encurtamento)
ItemSemUrl == << "Item" >>

\* resposta.get("Item", {}).get("url_original")
UrlDoItem(item) == IF item = ItemSemUrl THEN Nenhum ELSE item

\* no invocation is in flight and none has returned
InitInvocacoes ==
  /\ pc = [p \in Procs |-> "idle"]
  /\ funcao = [p \in Procs |-> ""]
  /\ operacao = [p \in Procs |-> "nenhuma"]
  /\ evento = [p \in Procs |-> SemEvento]
  /\ url_original = [p \in Procs |-> Nenhum]
  /\ codigo = [p \in Procs |-> Nenhum]
  /\ tentativa = [p \in Procs |-> 0]
  /\ resposta = [p \in Procs |-> SemResposta]
  /\ puts = [p \in Procs |-> << >>]
  /\ gets = [p \in Procs |-> << >>]
  /\ emitidos = [c \in Codigos |-> 0]
  /\ criados = {}

\* the table is empty when the function is deployed
Init ==
  /\ tabela = [c \in Codigos |-> Nenhum]
  /\ InitInvocacoes

\* what a table may hold that criar_encurtamento did not write: an item
\* without url_original, an empty url_original, one that is not a valid url
ItensAlheios == { ItemSemUrl, << >>, UrlFtp }

\* the function is deployed on a table that holds items it did not write
InitTabela ==
  /\ tabela \in [Codigos -> ItensAlheios \cup {Nenhum}]
  /\ InitInvocacoes

(***************************************************************************)
(* criar_encurtamento, lines 34-46: parsing and validation.  The result is *)
(* either the response of an early return (or of the outer except) or the  *)
(* url the generation loop starts with.                                    *)
(***************************************************************************)
Fim(resp) == [fim |-> TRUE, resp |-> resp, valor |-> Nenhum]
Segue(valor) == [fim |-> FALSE, resp |-> SemResposta, valor |-> valor]

\* json.loads(evento.get("body") or "{}") followed by corpo.get("url")
corpo_url(corpo) ==
  IF corpo.tipo = "invalido" THEN Fim(RespErro(500, MSG_JSON))
  ELSE IF corpo.tipo = "lista" THEN Fim(RespErro(500, MSG_LISTA))
  ELSE IF corpo.tipo = "nulo" THEN Fim(RespErro(500, MSG_NONE))
  ELSE IF corpo.tipo = "objeto" THEN Segue(corpo.url)
  ELSE Segue(Nenhum)

\* the validation without the call of url_valida
criar_validacao_so_vazio(ev) ==
  LET c == corpo_url(ev.body)
  IN  IF c.fim THEN c
      ELSE IF ~Truthy(c.valor)
        THEN Fim(RespErro(400, ERRO_URL))
        ELSE Segue(c.valor)

criar_validacao(ev) ==
  LET c == corpo_url(ev.body)
  IN  IF c.fim THEN c
      ELSE IF ~Truthy(c.valor) \/ ~url_valida(c.valor)
        THEN Fim(RespErro(400, ERRO_URL))
        ELSE Segue(c.valor)

(***************************************************************************)
(* redirecionar, lines 89-97: the code of the path.                        *)
(***************************************************************************)
redirecionar_codigo(ev) ==
  LET pp == ev.pathParameters
  IN  IF pp.tipo = "semchave" THEN Fim(RespErro(500, MSG_KEY))
      ELSE IF pp.tipo = "nulo" THEN Fim(RespErro(500, MSG_NONE))
      ELSE IF ~Truthy(pp.codigo) THEN Fim(RespErro(400, ERRO_CODIGO))
      ELSE Segue(pp.codigo)

(***************************************************************************)
(* handler, lines 131-148: the route of an event.                          *)
(***************************************************************************)
\* caminho.endswith("/encurtar")
EndsWithEncurtar(caminho) == Len(caminho) > 0 /\ caminho[Len(caminho)] = "encurtar"

\* the second route taken by every GET, whatever its pathParameters
rota_todo_get(ev) ==
  IF ev.httpMethod = "POST" /\ EndsWithEncurtar(ev.path)
    THEN "criar"
  ELSE IF ev.httpMethod = "GET"
    THEN "redirecionar"
  ELSE "nenhuma"

rota(ev) ==
  IF ev.httpMethod = "POST" /\ EndsWithEncurtar(ev.path)
    THEN "criar"
  ELSE IF /\ ev.httpMethod = "GET"
          /\ ev.pathParameters.tipo = "dict"
          /\ Truthy(ev.pathParameters.codigo)
    THEN "redirecionar"
  ELSE "nenhuma"

(***************************************************************************)
(* The table calls.                                                        *)
(***************************************************************************)
SemExcecao == Excecao("", "", "")

\* put_item without the ConditionExpression: the item replaces what is there
PutItemSemCondicao(tab, c, url, falha) ==
  IF falha # [classe |-> "", code |-> "", msg |-> ""]
    THEN [tabela |-> tab, exc |-> falha]
    ELSE [tabela |-> [tab EXCEPT ![c] = url],
          exc |-> [classe |-> "", code |-> "", msg |-> ""]]

\* a put_item that is not atomic: the item is written although the call fails
PutItemEscreveEFalha(tab, c, url, falha) ==
  IF tab[c] # << "None" >>
    THEN [tabela |-> tab,
          exc |-> IF falha # [classe |-> "", code |-> "", msg |-> ""] THEN falha
                  ELSE [classe |-> "ClientError",
                        code |-> "ConditionalCheckFailedException",
                        msg |-> "The conditional request failed"]]
    ELSE [tabela |-> [tab EXCEPT ![c] = url], exc |-> falha]

\* tabela.put_item(Item={codigo, url_original},
\*                 ConditionExpression="attribute_not_exists(codigo)"):
\* atomic; falha is the failure of the store in this call, if any
PutItem(tab, c, url, falha) ==
  IF falha # SemExcecao THEN [tabela |-> tab, exc |-> falha]
  ELSE IF tab[c] # Nenhum THEN [tabela |-> tab, exc |-> ExcecaoCondicao]
  ELSE [tabela |-> [tab EXCEPT ![c] = url], exc |-> SemExcecao]

\* a read that consumes the item it returns
GetItemApaga(tab, c, falha) ==
  IF falha # [classe |-> "", code |-> "", msg |-> ""]
    THEN [tabela |-> tab, url |-> Nenhum, exc |-> falha]
    ELSE [tabela |-> [tab EXCEPT ![c] = Nenhum], url |-> tab[c],
          exc |-> [classe |-> "", code |-> "", msg |-> ""]]

\* tabela.get_item(Key={"codigo": codigo}) followed by
\* resposta.get("Item", {}).get("url_original")
GetItem(tab, c, falha) ==
  IF falha # SemExcecao THEN [tabela |-> tab, url |-> Nenhum, exc |-> falha]
  ELSE [tabela |-> tab, url |-> UrlDoItem(tab[c]), exc |-> SemExcecao]

\* how a call ended: "ok", the error code of a ClientError, or the class of
\* another exception
Resultado(exc) ==
  IF exc = SemExcecao THEN "ok"
  ELSE IF exc.classe = "ClientError" THEN exc.code
  ELSE exc.classe

(***************************************************************************)
(* Lines 58-62: what the loop does with an exception of put_item.           *)
(***************************************************************************)
\* The module boto3.exceptions defines no ClientError (the class lives in
\* botocore.exceptions), so the expression of the except clause on line 58,
\* which Python evaluates when put_item raises, raises AttributeError itself.
Boto3ExceptionsClientError == FALSE

\* an except clause that swallows every exception of put_item and goes on
\* with the loop
TratarExcecaoEngole(exc) == [acao |-> "continue", msg |-> ""]

TratarExcecao(exc) ==
  IF ~Boto3ExceptionsClientError
    THEN [acao |-> "raise", msg |-> MSG_ATRIBUTO]
  ELSE IF exc.classe = "ClientError" /\ exc.code = CCFE
    THEN [acao |-> "continue", msg |-> ""]
  ELSE [acao |-> "raise", msg |-> exc.msg]

(***************************************************************************)
(* Entering an operation.                                                  *)
(***************************************************************************)
\* the response is built but the invocation does not return
TerminaSemFim(p, resp) ==
  /\ pc' = pc
  /\ resposta' = [resposta EXCEPT ![p] = resp]

Termina(p, resp) ==
  /\ pc' = [pc EXCEPT ![p] = "done"]
  /\ resposta' = [resposta EXCEPT ![p] = resp]

IniciarCriar(p, ev) ==
  LET v == criar_validacao(ev)
  IN  /\ operacao' = [operacao EXCEPT ![p] = "criar"]
      /\ IF v.fim
           THEN /\ Termina(p, v.resp)
                /\ UNCHANGED url_original
           ELSE /\ pc' = [pc EXCEPT ![p] = "put"]
                /\ url_original' = [url_original EXCEPT ![p] = v.valor]
                /\ UNCHANGED resposta
      /\ UNCHANGED << codigo >>

IniciarRedirecionar(p, ev) ==
  LET v == redirecionar_codigo(ev)
  IN  /\ operacao' = [operacao EXCEPT ![p] = "redirecionar"]
      /\ IF v.fim
           THEN /\ Termina(p, v.resp)
                /\ UNCHANGED codigo
           ELSE /\ pc' = [pc EXCEPT ![p] = "get"]
                /\ codigo' = [codigo EXCEPT ![p] = v.valor]
                /\ UNCHANGED resposta
      /\ UNCHANGED << url_original >>

Chamada(p, ev, f) ==
  /\ pc[p] = "idle"
  /\ funcao' = [funcao EXCEPT ![p] = f]
  /\ evento' = [evento EXCEPT ![p] = ev]
  /\ UNCHANGED << tabela, tentativa, puts, gets, emitidos, criados >>

\* handler(evento, contexto)
handler(p, ev) ==
  /\ Chamada(p, ev, "handler")
  /\ IF rota(ev) = "criar" THEN IniciarCriar(p, ev)
     ELSE IF rota(ev) = "redirecionar" THEN IniciarRedirecionar(p, ev)
     ELSE /\ Termina(p, RespErro(400, ERRO_ROTA))
          /\ UNCHANGED << operacao, url_original, codigo >>

\* criar_encurtamento(evento), called directly
criar_encurtamento(p, ev) ==
  /\ Chamada(p, ev, "criar_encurtamento")
  /\ IniciarCriar(p, ev)

\* redirecionar(evento), called directly
redirecionar(p, ev) ==
  /\ Chamada(p, ev, "redirecionar")
  /\ IniciarRedirecionar(p, ev)

(***************************************************************************)
(* One iteration of the generation loop, lines 49-68, and the return of    *)
(* lines 70-80 or of the outer except, lines 82-84.                        *)
(***************************************************************************)
put_item(p, Falhas) ==
  /\ pc[p] = "put"
  /\ \E c \in Codigos, falha \in Falhas \cup {SemExcecao} :
       LET r == PutItem(tabela, c, url_original[p], falha)
           t == TratarExcecao(r.exc)
       IN  /\ codigo' = [codigo EXCEPT ![p] = c]
           /\ tabela' = r.tabela
           /\ puts' = [puts EXCEPT ![p] = Append(@, Resultado(r.exc))]
           /\ IF r.exc = SemExcecao
                THEN /\ Termina(p, Resp201(c))
                     /\ emitidos' = [emitidos EXCEPT ![c] = @ + 1]
                     /\ criados' = criados \cup { << c, url_original[p] >> }
                     /\ UNCHANGED tentativa
                ELSE /\ UNCHANGED << emitidos, criados >>
                     /\ IF t.acao = "raise"
                          THEN /\ Termina(p, RespErro(500, t.msg))
                               /\ UNCHANGED tentativa
                          ELSE IF tentativa[p] + 1 = MAX_TENTATIVAS
                            THEN /\ Termina(p, RespErro(500, ERRO_GERAR))
                                 /\ UNCHANGED tentativa
                            ELSE /\ tentativa' = [tentativa EXCEPT ![p] = @ + 1]
                                 /\ UNCHANGED << pc, resposta >>
  /\ UNCHANGED << funcao, operacao, evento, url_original, gets >>

(***************************************************************************)
(* redirecionar, lines 99-126.                                              *)
(***************************************************************************)
\* lines 102-123 without the test of line 102
redirecionar_resposta_sem_404(url) ==
  IF ~url_valida(url) THEN RespErro(500, ERRO_URL_DB)
  ELSE Resp301(url)

\* lines 102-123: the response for the url_original that was read
redirecionar_resposta(url) ==
  IF ~Truthy(url) THEN RespErro(404, ERRO_404)
  ELSE IF ~url_valida(url) THEN RespErro(500, ERRO_URL_DB)
  ELSE Resp301(url)

get_item(p, Falhas) ==
  /\ pc[p] = "get"
  /\ \E falha \in Falhas \cup {SemExcecao} :
       LET r == GetItem(tabela, codigo[p], falha)
       IN  /\ tabela' = r.tabela
           /\ url_original' = [url_original EXCEPT ![p] = r.url]
           /\ gets' = [gets EXCEPT ![p] = Append(@, Resultado(r.exc))]
           /\ IF r.exc # SemExcecao THEN Termina(p, RespErro(500, r.exc.msg))
              ELSE Termina(p, redirecionar_resposta(r.url))
  /\ UNCHANGED << funcao, operacao, evento, codigo, tentativa, puts,
                  emitidos, criados >>

(***************************************************************************)
(* The invocation returns its response; its slot serves the next request.  *)
(***************************************************************************)
Retornar(p) ==
  /\ pc[p] = "done"
  /\ pc' = [pc EXCEPT ![p] = "idle"]
  /\ funcao' = [funcao EXCEPT ![p] = ""]
  /\ operacao' = [operacao EXCEPT ![p] = "nenhuma"]
  /\ evento' = [evento EXCEPT ![p] = SemEvento]
  /\ url_original' = [url_original EXCEPT ![p] = Nenhum]
  /\ codigo' = [codigo EXCEPT ![p] = Nenhum]
  /\ tentativa' = [tentativa EXCEPT ![p] = 0]
  /\ resposta' = [resposta EXCEPT ![p] = SemResposta]
  /\ puts' = [puts EXCEPT ![p] = << >>]
  /\ gets' = [gets EXCEPT ![p] = << >>]
  /\ UNCHANGED << tabela, emitidos, criados >>

(***************************************************************************)
(* Specifications.                                                         *)
(***************************************************************************)
\* concurrent invocations of handler on the routed requests; a table call
\* may fail with a permission error
Next ==
  \E p \in Procs :
    \/ \E ev \in EventosRota : handler(p, ev)
    \/ put_item(p, {FalhaPermissao})
    \/ get_item(p, {FalhaPermissao})
    \/ Retornar(p)

Spec == Init /\ [][Next]_vars

\* the requests of the clients that all shorten one url and all follow the
\* first code
EventosJustos ==
  { Evento("POST", << "encurtar" >>, Corpo("objeto", UrlA), SemParametros),
    Evento("GET", << "x" >>, Corpo("ausente", Nenhum),
           Parametros("dict", [i \in 1..TAMANHO_CODIGO |-> CARACTERES[1]])) }

NextJusta ==
  \E p \in Procs :
    \/ \E ev \in EventosJustos : handler(p, ev)
    \/ put_item(p, {FalhaPermissao})
    \/ get_item(p, {FalhaPermissao})
    \/ Retornar(p)

\* concurrent invocations, each of which runs to completion: a table call
\* it waits for returns or raises
SpecJusta ==
  /\ Init
  /\ [][NextJusta]_vars
  /\ \A p \in Procs : /\ WF_vars(put_item(p, {FalhaPermissao}))
                       /\ WF_vars(get_item(p, {FalhaPermissao}))

\* one invocation at a time, of any of the three functions, on any event
NextEntrada ==
  \/ \E ev \in EventosHandler : handler(1, ev)
  \/ \E ev \in EventosCriar : criar_encurtamento(1, ev)
  \/ \E ev \in EventosRedirecionar : redirecionar(1, ev)
  \/ put_item(1, FalhasDaTabela)
  \/ get_item(1, FalhasDaTabela)
  \/ Retornar(1)

SpecEntrada == Init /\ [][NextEntrada]_vars

\* the same, on a table that holds items the function did not write
SpecTabela == InitTabela /\ [][NextEntrada]_vars

TypeOK ==
  /\ tabela \in [Codigos -> UrlsValidas \cup UrlsInvalidas \cup {Nenhum, ItemSemUrl}]
  /\ pc \in [Procs -> {"idle", "put", "get", "done"}]
  /\ tentativa \in [Procs -> 0..(MAX_TENTATIVAS - 1)]
  /\ \A p \in Procs : Len(puts[p]) <= MAX_TENTATIVAS /\ Len(gets[p]) <= 1
  /\ \A c \in Codigos : emitidos[c] \in 0..1
  /\ criados \subseteq Codigos \X UrlsValidas

(***************************************************************************)
(* Properties.                                                             *)
(***************************************************************************)
Criou(p) == pc[p] = "done" /\ operacao[p] = "criar"
Resolveu(p) == pc[p] = "done" /\ operacao[p] = "redirecionar"

\* C1: under any interleaving of concurrent creates, no code is carried by
\* two 201 responses: each code was returned at most once, two invocations
\* that hold a 201 response hold different codes, and every returned code is
\* the key of one item of the table.
C1_Unicidade ==
  /\ \A c \in Codigos : emitidos[c] <= 1
  /\ \A p, q \in Procs :
       (p # q /\ Criou(p) /\ Criou(q)
          /\ resposta[p].statusCode = 201 /\ resposta[q].statusCode = 201)
       => resposta[p].codigo # resposta[q].codigo
  /\ \A par \in criados : tabela[par[1]] # Nenhum
  /\ Cardinality({ par[1] : par \in criados }) = Cardinality(criados)

\* C1 witness: an invocation returned 201 with a code that another,
\* concurrent create also generated and was refused
W_C1 ==
  \E p, q \in Procs :
    /\ p # q /\ Criou(p) /\ Criou(q)
    /\ resposta[p].statusCode = 201
    /\ codigo[q] = resposta[p].codigo
    /\ puts[q] = << CCFE >>

\* the put_item calls of p so far all failed because the key exists
SoColisoes(p) == Len(puts[p]) >= 1 /\ \A i \in 1..Len(puts[p]) : puts[p][i] = CCFE

\* C2: a create whose first N < 5 codes collide goes on to the next attempt
\* (the conflict is not surfaced to the caller), and when the (N+1)th code is
\* free it returns 201 with that code after exactly N+1 put_item calls.
C2_Retry ==
  \A p \in Procs :
    /\ (operacao[p] = "criar" /\ SoColisoes(p) /\ Len(puts[p]) < MAX_TENTATIVAS)
         => pc[p] = "put"
    /\ (Criou(p) /\ puts[p] # << >> /\ puts[p][Len(puts[p])] = "ok")
         => /\ resposta[p] = Resp201(codigo[p])
            /\ \A i \in 1..(Len(puts[p]) - 1) : puts[p][i] = CCFE

\* C3: a create all of whose generated codes collide returns 500 with the
\* text of ERRO_GERAR after exactly 5 put_item calls, none of them successful.
C3_Exaustao ==
  \A p \in Procs :
    (Criou(p) /\ SoColisoes(p))
      => /\ resposta[p] = RespErro(500, ERRO_GERAR)
         /\ Len(puts[p]) = MAX_TENTATIVAS

\* C4: once a create returned 201 with code c for url u, every resolve of c
\* whose get_item does not fail returns 301 with Location u, whatever other
\* creates and resolves ran in between.
C4_RoundTrip ==
  [][ \A p \in Procs :
        (pc[p] = "get" /\ pc'[p] = "done" /\ gets'[p] = << "ok" >>)
          => \A par \in criados :
               par[1] = codigo[p]
                 => resposta'[p] = Resp301(par[2]) ]_vars

\* C4 witness: a resolve returned 301 with the url of the create that
\* returned its code, after another create had also succeeded
W_C4 ==
  \E p \in Procs :
    /\ Resolveu(p) /\ resposta[p].statusCode = 301
    /\ << codigo[p], resposta[p].Location >> \in criados
    /\ Cardinality(criados) >= 2

\* the body of the event is missing or is not the text of a JSON object
CorpoIlegivel(ev) == ev.body.tipo \in {"ausente", "invalido", "lista", "nulo"}

\* C5: a create whose body is missing or unparseable returns 400 with the
\* invalid-url error and calls neither put_item nor get_item.
C5_CorpoIlegivel ==
  \A p \in Procs :
    (Criou(p) /\ CorpoIlegivel(evento[p]))
      => /\ resposta[p] = RespErro(400, ERRO_URL)
         /\ puts[p] = << >> /\ gets[p] = << >>

\* str(e) of the failure of the store with the given outcome
MsgDaFalha(resultado) ==
  (CHOOSE f \in FalhasDaTabela : Resultado(f) = resultado).msg

\* C6: when put_item fails for a reason other than the existing key, the
\* create makes no further attempt and returns 500 with the message of that
\* store error.
C6_FalhaDaTabela ==
  \A p \in Procs :
    \A i \in 1..Len(puts[p]) :
      puts[p][i] \notin {"ok", CCFE}
        => /\ i = Len(puts[p])
           /\ pc[p] = "done"
           /\ resposta[p] = RespErro(500, MsgDaFalha(puts[p][i]))

\* C7: every url_original in the table has the scheme http or https and a
\* non-empty netloc.
C7_UrlsValidasNaTabela ==
  \A c \in Codigos :
    tabela[c] # Nenhum
      => /\ IsString(tabela[c])
         /\ UrlScheme(tabela[c]) \in {HTTP, HTTPS}
         /\ UrlNetloc(tabela[c]) # << >>

\* C7 witness: the table holds a record while a create of a url with another
\* scheme has just been rejected
W_C7 ==
  /\ \E c \in Codigos : tabela[c] # Nenhum
  /\ \E p \in Procs :
       Criou(p) /\ evento[p].body = Corpo("objeto", UrlFtp)
                /\ resposta[p].statusCode = 400

\* the url field of a body that parses to a JSON object
CampoUrl(ev) == IF ev.body.tipo = "objeto" THEN ev.body.url ELSE Nenhum

\* absent, empty, a scheme other than http/https, or an empty host
UrlRecusavel(u) ==
  \/ ~Truthy(u)
  \/ IsString(u) /\ UrlScheme(u) \notin {HTTP, HTTPS}
  \/ IsString(u) /\ UrlNetloc(u) = << >>

\* C8: a create whose url field is absent, empty, of a scheme other than
\* http/https or without a host returns 400 and calls neither put_item nor
\* get_item.
C8_UrlRecusada ==
  \A p \in Procs :
    (Criou(p) /\ evento[p].body.tipo \in {"objeto", "vazio"}
              /\ UrlRecusavel(CampoUrl(evento[p])))
      => /\ resposta[p] = RespErro(400, ERRO_URL)
         /\ puts[p] = << >> /\ gets[p] = << >>

\* C8 witness: a create of "https://" (empty host) returned 400
W_C8 ==
  \E p \in Procs :
    /\ Criou(p) /\ evento[p].body = Corpo("objeto", UrlSemHost)
    /\ resposta[p].statusCode = 400 /\ puts[p] = << >>

\* C9: an item of the table is never overwritten or deleted: once the table
\* maps c to u it maps c to u in every later state.
C9_Imutavel ==
  [][ \A c \in Codigos : tabela[c] # Nenhum => tabela'[c] = tabela[c] ]_vars

\* C9 witness: a create generated the code of an existing record of another
\* url and ended, the record being what it was
W_C9 ==
  \E p \in Procs :
    /\ Criou(p) /\ puts[p] = << CCFE >>
    /\ tabela[codigo[p]] # Nenhum
    /\ tabela[codigo[p]] # url_original[p]

\* C10: a step of redirecionar leaves the table as it is, whatever response
\* it ends with (301, 400, 404 or 500), and a 301 carries the url the table
\* holds for the code, so every resolve of one code is sent to the same
\* Location.
C10_LeituraSemEfeito ==
  [][ \A p \in Procs :
        (operacao'[p] = "redirecionar" /\ pc[p] # "done" /\ pc'[p] = "done")
          => /\ tabela' = tabela
             /\ resposta'[p].statusCode \in {301, 400, 404, 500}
             /\ resposta'[p].statusCode = 301
                  => resposta'[p].Location = tabela'[codigo'[p]] ]_vars

\* C10 witness: redirecionar returned 301 for a code of the table, which
\* still holds the Location it returned
W_C10 ==
  \E p \in Procs :
    /\ Resolveu(p) /\ funcao[p] = "redirecionar"
    /\ resposta[p].statusCode = 301
    /\ resposta[p].Location = tabela[codigo[p]]

\* the event is a POST whose path ends with "/encurtar"
PostEncurtar(ev) ==
  ev.httpMethod = "POST" /\ ev.path \in { << "encurtar" >>, << "prod", "encurtar" >> }

\* the event is a GET whose pathParameters hold a non-empty codigo
GetComCodigo(ev) ==
  ev.httpMethod = "GET" /\ ev.pathParameters \in { Parametros("dict", c) : c \in Codigos }

SemUrlNaTabela(c) == tabela[c] \in {Nenhum, ItemSemUrl, << >>}

\* C12: a resolve of a non-empty code whose get_item answers returns 404
\* exactly when the table has no item for the code or the item has no, or an
\* empty, url_original (so always on an empty table), and it returns 301
\* only for a code that a create returned with 201.
C12_NaoEncontrado ==
  [][ \A p \in Procs :
        (pc[p] = "get" /\ pc'[p] = "done" /\ gets'[p] = << "ok" >>)
          => /\ resposta'[p].statusCode = 404 <=> SemUrlNaTabela(codigo[p])
             /\ resposta'[p].statusCode = 404
                  => resposta'[p] = RespErro(404, ERRO_404)
             /\ resposta'[p].statusCode = 301
                  => << codigo[p], resposta'[p].Location >> \in criados ]_vars

\* C12 witness: a resolve returned 404 for a code whose item has no
\* url_original
W_C12 ==
  \E p \in Procs :
    /\ Resolveu(p) /\ gets[p] = << "ok" >>
    /\ resposta[p].statusCode = 404
    /\ tabela[codigo[p]] = ItemSemUrl

\* the code of the path is absent or empty
SemCodigo(ev) ==
  \/ ev.pathParameters.tipo \in {"semchave", "nulo"}
  \/ ~Truthy(ev.pathParameters.codigo)

\* C13: a resolve called without pathParameters, with null pathParameters,
\* without a codigo entry or with an empty codigo returns 400 with the text
\* of ERRO_CODIGO and does not call get_item.
C13_CodigoAusente ==
  \A p \in Procs :
    (Resolveu(p) /\ SemCodigo(evento[p]))
      => /\ resposta[p] = RespErro(400, ERRO_CODIGO)
         /\ gets[p] = << >>

\* the statusCode of the responses of lines 39-126
Respostas == {201, 301, 400, 404, 500}

\* C14: when put_item or get_item fails, the invocation ends with a response
\* of status 500; every invocation that ends holds a response, none ends
\* with an exception.
C14_FalhaVira500 ==
  \A p \in Procs :
    /\ \A i \in 1..Len(puts[p]) :
         puts[p][i] \notin {"ok", CCFE}
           => pc[p] = "done" /\ resposta[p].statusCode = 500
    /\ \A i \in 1..Len(gets[p]) :
         gets[p][i] # "ok"
           => pc[p] = "done" /\ resposta[p].statusCode = 500
    /\ pc[p] = "done" => resposta[p].statusCode \in Respostas

\* C14 witness: the table could not be reached during a create, which
\* returned 500
W_C14 ==
  \E p \in Procs :
    /\ Criou(p) /\ puts[p] = << "EndpointConnectionError" >>
    /\ resposta[p].statusCode = 500

\* C15: on a table written only by criar_encurtamento, no resolve returns
\* the 500 of ERRO_URL_DB: a resolve whose get_item answers returns 301 or
\* 404.
C15_UrlDoBancoValida ==
  \A p \in Procs :
    /\ resposta[p] # RespErro(500, ERRO_URL_DB)
    /\ (Resolveu(p) /\ gets[p] = << "ok" >>)
         => resposta[p].statusCode \in {301, 404}

\* C15 witness: a resolve validated again the url "HTTP://a/x" that a create
\* stored, and returned 301
W_C15 ==
  \E p \in Procs :
    /\ Resolveu(p) /\ gets[p] = << "ok" >>
    /\ resposta[p] = Resp301(UrlB)
    /\ << codigo[p], UrlB >> \in criados

\* the number of put_item calls of p that succeeded
Inseridos(p) == Cardinality({ i \in 1..Len(puts[p]) : puts[p][i] = "ok" })

\* C16: a create returns 201 exactly when one of its put_item calls
\* succeeded; that call is its last and its only successful one, the codigo
\* of the response is its key, url_encurtada is "/" followed by the codigo,
\* and the record it added is the only one the invocation added.
C16_UmaInsercao ==
  \A p \in Procs :
    operacao[p] = "criar" =>
      /\ Inseridos(p) <= 1
      /\ \A i \in 1..Len(puts[p]) : puts[p][i] = "ok" => i = Len(puts[p])
      /\ Inseridos(p) = 1 => pc[p] = "done"
      /\ pc[p] = "done" => (resposta[p].statusCode = 201 <=> Inseridos(p) = 1)
      /\ resposta[p].statusCode = 201
           => /\ resposta[p].codigo = codigo[p]
              /\ resposta[p].url_encurtada = << "/" >> \o codigo[p]
              /\ Len(resposta[p].url_encurtada) = TAMANHO_CODIGO + 1
              /\ tabela[codigo[p]] = url_original[p]

\* C16 witness: a create returned 201 after its only put_item call
W_C16 ==
  \E p \in Procs :
    /\ Criou(p) /\ puts[p] = << "ok" >>
    /\ resposta[p].statusCode = 201
    /\ resposta[p].url_encurtada[1] = "/"

\* p takes a step of criar_encurtamento that does not end with 201
PassoSem201(p) ==
  /\ operacao'[p] = "criar"
  /\ pc[p] \in {"idle", "put"}
  /\ pc'[p] \in {"put", "done"}
  /\ pc'[p] # pc[p] \/ puts'[p] # puts[p]
  /\ resposta'[p].statusCode # 201

\* C17: a step of a create that does not return 201 (validation, a refused
\* insert, a failure of the table) leaves the table as it was, and every
\* record of the table was written by a create that returned 201 with it.
C17_ErroSemEfeito ==
  [][ /\ \A p \in Procs : PassoSem201(p) => tabela' = tabela
      /\ \A c \in Codigos :
           tabela'[c] # Nenhum => << c, tabela'[c] >> \in criados' ]_vars

\* C17 witness: a create ended with 500 after the table refused its
\* put_item, while the table holds the record of another create
W_C17 ==
  \E p \in Procs :
    /\ Criou(p) /\ resposta[p].statusCode = 500
    /\ puts[p] = << "AccessDeniedException" >>
    /\ tabela[codigo[p]] = Nenhum
    /\ \E c \in Codigos : tabela[c] # Nenhum

\* C18: every create ends with a response after at most 5 put_item calls
\* and every resolve after at most one get_item call, whatever the table
\* holds, whether its calls fail, and whatever the other invocations do.
C18_Termina ==
  /\ [](\A p \in Procs : Len(puts[p]) <= 5 /\ Len(gets[p]) <= 1)
  /\ \A p \in Procs : (pc[p] \in {"put", "get"}) ~> (pc[p] = "done")

\* C18 witness: a create and a resolve that ran concurrently both ended, the
\* create after one put_item call and the resolve after one get_item call
W_C18 ==
  \E p, q \in Procs :
    /\ Criou(p) /\ Len(puts[p]) = 1
    /\ Resolveu(q) /\ Len(gets[q]) = 1

====
